---- MODULE Spec2Model ----
(***************************************************************************)
(* Model of the tag-access layer of mp3image (src/audio_handler.py): the   *)
(* four operations extract_cover_art, embed_cover_art, get_metadata and    *)
(* set_metadata over MP3 files on disk, and of the editor window that      *)
(* calls them (src/main.py).  The ID3 codec the module calls               *)
(* (MP3(), add_tags, tags.add, tags.delall, save(v2_version=3)) is         *)
(* modelled at the level of frames: what each call does to the container.  *)
(*                                                                         *)
(* Text is a sequence of code points, bytes are sequences of 0..255.       *)
(***************************************************************************)
EXTENDS Integers, Sequences, FiniteSets, TLC

VARIABLES
    fs,          \* the MP3 files on disk: path -> NoFile or a file record
    last,        \* the last call made: operation, arguments and outcome
    wroteText,   \* the last successful set_metadata: its arguments, and what followed
    wroteCover,  \* the last successful embed_cover_art: its image bytes, and what followed
    gui,         \* the editor window (src/main.py): its in-memory state
    event        \* the last handler of the window that ran, and how it ended

vars == <<fs, last, wroteText, wroteCover, gui, event>>

-----------------------------------------------------------------------------
(* Bounds of the model.                                                    *)

\* Cap of the counter of set_metadata calls that followed a cover write.
MaxTextWrites == 2

-----------------------------------------------------------------------------
(* Python values.                                                          *)

\* Optional[x]: None is the empty tuple, a value is wrapped.
None == <<>>
Some(x) == <<x>>

\* The title and artist arguments a caller passes, as code points: the
\* empty string, "T" (Latin), Hebrew kaf, and the two together (the first
\* letters of the strings of test_logic.py).
Strings == {<<>>, <<84>>, <<1499>>, <<84, 1499>>}

\* sep.join(values)
RECURSIVE Join(_, _)
Join(values, sep) ==
    IF values = <<>> THEN <<>>
    ELSE IF Len(values) = 1 THEN values[1]
    ELSE values[1] \o sep \o Join(Tail(values), sep)

\* The named strings of the source, as code points.
CoverDesc == <<67, 111, 118, 101, 114>>     \* 'Cover'
BackDesc  == <<66, 97, 99, 107>>            \* 'Back' (a picture of another tagger)
Slash     == <<47>>                         \* '/', the ID3v2.3 value separator
Nul       == <<0>>                          \* u'\u0000', the ID3v2.4 value separator

\* str.lower() of one code point (ASCII letters).
LowerChar(c) == IF c >= 65 /\ c <= 90 THEN c + 32 ELSE c

\* str.lower()
Lower(s) == [i \in 1..Len(s) |-> LowerChar(s[i])]

-----------------------------------------------------------------------------
(* Text encoding of the codec: a frame written as ID3v2.3 stores its text  *)
(* as UTF-16 with a byte order mark, each value followed by a two-byte     *)
(* terminator.                                                             *)

RECURSIVE Utf16Units(_)
Utf16Units(s) ==
    IF s = <<>> THEN <<>>
    ELSE <<Head(s) % 256, Head(s) \div 256>> \o Utf16Units(Tail(s))

EncodeUtf16(s) == <<255, 254>> \o Utf16Units(s) \o <<0, 0>>

\* Index of the first two-byte terminator at an even offset, or 0.
RECURSIVE FindTerminator(_, _)
FindTerminator(bytes, i) ==
    IF i + 1 > Len(bytes) THEN 0
    ELSE IF bytes[i] = 0 /\ bytes[i + 1] = 0 THEN i
    ELSE FindTerminator(bytes, i + 2)

RECURSIVE Utf16Chars(_)
Utf16Chars(bytes) ==
    IF Len(bytes) < 2 THEN <<>>
    ELSE <<bytes[1] + 256 * bytes[2]>> \o Utf16Chars(SubSeq(bytes, 3, Len(bytes)))

DecodeUtf16(bytes) ==
    IF Len(bytes) >= 2 /\ bytes[1] = 255 /\ bytes[2] = 254
    THEN Utf16Chars(SubSeq(bytes, 3, Len(bytes)))
    ELSE Utf16Chars(bytes)

\* The values of a text frame body: terminated strings, read while data is left.
RECURSIVE ReadTextValues(_)
ReadTextValues(bytes) ==
    IF bytes = <<>> THEN <<>>
    ELSE LET t == FindTerminator(bytes, 1)
         IN  IF t = 0 THEN <<DecodeUtf16(bytes)>>
             ELSE <<DecodeUtf16(SubSeq(bytes, 1, t - 1))>>
                  \o ReadTextValues(SubSeq(bytes, t + 2, Len(bytes)))

RECURSIVE WriteTextValues(_)
WriteTextValues(values) ==
    IF values = <<>> THEN <<>>
    ELSE EncodeUtf16(Head(values)) \o WriteTextValues(Tail(values))

-----------------------------------------------------------------------------
(* Frames of the codec, as the program builds and reads them.              *)

\* TIT2(encoding=..., text=...): a text frame holds a list of values; a
\* single string becomes a one-element list.
TIT2(encoding, text) ==
    [id |-> "TIT2", encoding |-> encoding, text |-> <<text>>,
     mime |-> "", type |-> 0, desc |-> <<>>, data |-> <<>>]

TPE1(encoding, text) ==
    [id |-> "TPE1", encoding |-> encoding, text |-> <<text>>,
     mime |-> "", type |-> 0, desc |-> <<>>, data |-> <<>>]

APIC(encoding, mime, type, desc, data) ==
    [id |-> "APIC", encoding |-> encoding, text |-> <<>>,
     mime |-> mime, type |-> type, desc |-> desc, data |-> data]

IsTextFrame(frame) == frame.id \in {"TIT2", "TPE1"}

\* The key of a frame in the container: the identifier, and for an attached
\* picture also its description ("APIC:<desc>").
HashKey(frame) == <<frame.id, frame.desc>>

\* tags.add(frame): the container is keyed by HashKey; adding under a key
\* that is present replaces that frame, otherwise the frame is appended.
add(tags, frame) ==
    IF \E i \in 1..Len(tags) : HashKey(tags[i]) = HashKey(frame)
    THEN [i \in 1..Len(tags) |->
             IF HashKey(tags[i]) = HashKey(frame) THEN frame ELSE tags[i]]
    ELSE Append(tags, frame)

\* A removal that removes nothing.
delallKeepsFrames(tags, id) == tags

\* tags.delall("APIC"): removes every frame of that identifier.
delall(tags, id) ==
    LET keep(frame) == frame.id # id
    IN  SelectSeq(tags, keep)

\* str(frame) of a text frame: its values joined by u'\u0000'.
FrameStr(frame) == Join(frame.text, Nul)

-----------------------------------------------------------------------------
(* The tag container on disk, and the codec's load and save.               *)

\* A frame as stored: a text frame's values are encoded bytes (body).
DiskFrame(id, encoding, body, mime, type, desc, data) ==
    [id |-> id, encoding |-> encoding, body |-> body,
     mime |-> mime, type |-> type, desc |-> desc, data |-> data]

\* Writing one frame as ID3v2.3: encodings 2 and 3 (UTF-16BE, UTF-8) do not
\* exist in v2.3 and become 1 (UTF-16); the values of a text frame are joined
\* by '/' into one value.
WriteFrameV23(frame) ==
    LET encoding == IF frame.encoding \in {2, 3} THEN 1 ELSE frame.encoding
    IN  IF IsTextFrame(frame)
        THEN DiskFrame(frame.id, encoding,
                       WriteTextValues(<<Join(frame.text, Slash)>>),
                       "", 0, <<>>, <<>>)
        ELSE DiskFrame(frame.id, encoding, <<>>,
                       frame.mime, frame.type, frame.desc, frame.data)

\* Reading one stored frame back.
ReadFrame(d) ==
    [id |-> d.id, encoding |-> d.encoding,
     text |-> IF d.id \in {"TIT2", "TPE1"} THEN ReadTextValues(d.body) ELSE <<>>,
     mime |-> d.mime, type |-> d.type, desc |-> d.desc, data |-> d.data]

\* Size of a stored frame's data: encoding byte and body for a text frame;
\* encoding byte, mime and terminator, type byte, description (UTF-16) and
\* the picture data for an attached picture.
FrameSize(d) ==
    IF d.id \in {"TIT2", "TPE1"} THEN 1 + Len(d.body)
    ELSE 1 + Len(d.mime) + 1 + 1 + Len(EncodeUtf16(d.desc)) + Len(d.data)

\* Priority of a frame in the written tag: TIT2, TPE1, then the others.
FramePrio(d) == IF d.id = "TIT2" THEN 0 ELSE IF d.id = "TPE1" THEN 1 ELSE 7

RECURSIVE LexLess(_, _)
LexLess(s, t) ==
    IF t = <<>> THEN FALSE
    ELSE IF s = <<>> THEN TRUE
    ELSE IF Head(s) # Head(t) THEN Head(s) < Head(t)
    ELSE LexLess(Tail(s), Tail(t))

\* Order of the written frames: priority, then size, then hash key (frames
\* of equal priority are attached pictures, whose keys differ in desc).
FrameBefore(a, b) ==
    IF FramePrio(a) # FramePrio(b) THEN FramePrio(a) < FramePrio(b)
    ELSE IF FrameSize(a) # FrameSize(b) THEN FrameSize(a) < FrameSize(b)
    ELSE LexLess(a.desc, b.desc)

RECURSIVE InsertFrame(_, _)
InsertFrame(sorted, d) ==
    IF sorted = <<>> THEN <<d>>
    ELSE IF FrameBefore(d, Head(sorted)) THEN <<d>> \o sorted
    ELSE <<Head(sorted)>> \o InsertFrame(Tail(sorted), d)

RECURSIVE SortFrames(_)
SortFrames(ds) ==
    IF ds = <<>> THEN <<>>
    ELSE InsertFrame(SortFrames(Tail(ds)), Head(ds))

\* The frames a save writes: a text frame whose str() is empty is not
\* written at all; the others are written as v2.3 and sorted.
WriteTag(tags) ==
    LET written(frame) == ~(IsTextFrame(frame) /\ FrameStr(frame) = <<>>)
        kept == SelectSeq(tags, written)
    IN  SortFrames([i \in 1..Len(kept) |-> WriteFrameV23(kept[i])])

\* The frames a load reads, in file order.
ReadTag(frames) == [i \in 1..Len(frames) |-> ReadFrame(frames[i])]

-----------------------------------------------------------------------------
(* The files.                                                              *)

\* The MP3 paths a caller passes: one names a file, one names nothing.
Mp3Paths == {"song.mp3", "missing.mp3"}

\* A path that names no file.
NoFile == [exists |-> FALSE, header |-> "none", frames |-> <<>>, writable |-> FALSE]

\* An MP3 file: its tag header ("none": the file starts with audio, no ID3
\* header; "malformed": an ID3 header the codec cannot parse; "id3": a
\* container), the stored frames, and whether the file can be opened for
\* writing.
Mp3File(header, frames, writable) ==
    [exists |-> TRUE, header |-> header, frames |-> frames, writable |-> writable]

\* The image paths a caller passes, as code points.
ImgPng     == <<97, 46, 112, 110, 103>>             \* a.png
ImgPngUp   == <<97, 46, 80, 78, 71>>                \* a.PNG
ImgJpg     == <<97, 46, 106, 112, 103>>             \* a.jpg
ImgJpeg    == <<97, 46, 106, 112, 101, 103>>        \* a.jpeg
ImgGif     == <<97, 46, 103, 105, 102>>             \* a.gif
ImgNoExt   == <<97>>                                \* a
ImgDotfile == <<46, 112, 110, 103>>                 \* .png
ImgInDir   == <<100, 46, 112, 110, 103, 47, 97>>    \* d.png/a
ImgMissing == <<120, 46, 112, 110, 103>>            \* x.png, not on disk
ImgLocked  == <<117, 46, 106, 112, 103>>            \* u.jpg, on disk, not readable

ImagePaths ==
    {ImgPng, ImgPngUp, ImgJpg, ImgJpeg, ImgGif, ImgNoExt, ImgDotfile, ImgInDir,
     ImgMissing, ImgLocked}

PngBytes == <<137, 80>>
JpgBytes == <<255, 216>>
GifBytes == <<71, 73>>

\* The image files on disk (the program never writes them).
ImageFile(path) ==
    CASE path = ImgMissing -> [exists |-> FALSE, readable |-> FALSE, data |-> <<>>]
      [] path = ImgLocked  -> [exists |-> TRUE, readable |-> FALSE, data |-> JpgBytes]
      [] path \in {ImgPng, ImgPngUp, ImgDotfile}
                           -> [exists |-> TRUE, readable |-> TRUE, data |-> PngBytes]
      [] path \in {ImgJpg, ImgJpeg, ImgInDir}
                           -> [exists |-> TRUE, readable |-> TRUE, data |-> JpgBytes]
      [] path = ImgGif     -> [exists |-> TRUE, readable |-> TRUE, data |-> GifBytes]
      [] OTHER             -> [exists |-> TRUE, readable |-> TRUE, data |-> <<>>]

\* Stored frames of files tagged before the program runs.
StoredText(id, values) == DiskFrame(id, 1, WriteTextValues(values), "", 0, <<>>, <<>>)
StoredPicture(desc, data) == DiskFrame("APIC", 1, <<>>, "image/jpeg", 3, desc, data)

\* The tag states an MP3 file may be in when the program first sees it.
PriorTags ==
    { [header |-> "none", frames |-> <<>>],
      [header |-> "malformed", frames |-> <<>>],
      [header |-> "id3", frames |-> <<>>],
      [header |-> "id3", frames |-> <<StoredText("TIT2", <<<<84>>>>),
                                      StoredText("TPE1", <<<<1499>>>>)>>],
      [header |-> "id3", frames |-> <<StoredText("TIT2", <<<<84>>, <<1499>>>>)>>],
      [header |-> "id3", frames |-> <<StoredPicture(CoverDesc, GifBytes)>>],
      [header |-> "id3", frames |-> <<StoredText("TPE1", <<<<84>>>>),
                                      StoredPicture(BackDesc, JpgBytes),
                                      StoredPicture(CoverDesc, PngBytes)>>] }

-----------------------------------------------------------------------------
(* The calls of the codec on a file.                                       *)

\* An ID3 header that cannot be parsed read as if the file had none.
MP3MalformedAsAbsent(files, path) ==
    LET file == files[path]
    IN  IF ~file.exists
        THEN [raised |-> TRUE, exc |-> "MutagenError", tags |-> None]
        ELSE IF file.header = "id3"
        THEN [raised |-> FALSE, exc |-> "", tags |-> Some(ReadTag(file.frames))]
        ELSE [raised |-> FALSE, exc |-> "", tags |-> None]

\* MP3(mp3_path, ID3=ID3): opens the file and parses its tag.  A file with
\* no ID3 header loads with tags = None (the codec absorbs its own
\* ID3NoHeaderError); a header that cannot be parsed raises; a file that
\* cannot be opened raises.
MP3(files, path) ==
    LET file == files[path]
    IN  IF ~file.exists
        THEN [raised |-> TRUE, exc |-> "MutagenError", tags |-> None]
        ELSE IF file.header = "malformed"
        THEN [raised |-> TRUE, exc |-> "MutagenError", tags |-> None]
        ELSE IF file.header = "none"
        THEN [raised |-> FALSE, exc |-> "", tags |-> None]
        ELSE [raised |-> FALSE, exc |-> "", tags |-> Some(ReadTag(file.frames))]

\* A creation that always starts a new container.
add_tagsAlwaysCreates(tags) == [raised |-> FALSE, tags |-> Some(<<>>)]

\* audio.add_tags(): creates an empty container when the file has none, and
\* raises when one exists.
add_tags(tags) ==
    IF tags = None
    THEN [raised |-> FALSE, tags |-> Some(<<>>)]
    ELSE [raised |-> TRUE, tags |-> tags]

\* A save that empties the stored tag before it finds it cannot write.
saveTruncatesFirst(file, tags) ==
    IF tags = None
    THEN [raised |-> FALSE, exc |-> "", file |-> file]
    ELSE IF ~file.writable
    THEN [raised |-> TRUE, exc |-> "MutagenError",
          file |-> [file EXCEPT !.header = "id3", !.frames = <<>>]]
    ELSE [raised |-> FALSE, exc |-> "",
          file |-> [file EXCEPT !.header = "id3", !.frames = WriteTag(tags[1])]]

\* audio.save(v2_version=3): writes the container into the file as ID3v2.3;
\* nothing is written when the file cannot be opened for writing.
save(file, tags) ==
    IF tags = None
    THEN [raised |-> FALSE, exc |-> "", file |-> file]
    ELSE IF ~file.writable
    THEN [raised |-> TRUE, exc |-> "MutagenError", file |-> file]
    ELSE [raised |-> FALSE, exc |-> "",
          file |-> [file EXCEPT !.header = "id3", !.frames = WriteTag(tags[1])]]

\* An existence check that passes for every path.
existsAlways(files, path) == TRUE

\* os.path.exists(mp3_path)
exists(files, path) == files[path].exists

-----------------------------------------------------------------------------
(* Outcomes of a call.                                                     *)

NoMeta == [title |-> None, artist |-> None]

\* A call that returned: the value (cover or meta), the file as it is left,
\* and whether the file was opened by the codec.
Returned(cover, meta, file, opened) ==
    [raised |-> FALSE, exc |-> "", names |-> "", opened |-> opened,
     cover |-> cover, meta |-> meta, file |-> file]

\* A call that raised: the exception, the argument its message names, the
\* file as it is left.
Raised(exc, names, file, opened) ==
    [raised |-> TRUE, exc |-> exc, names |-> names, opened |-> opened,
     cover |-> None, meta |-> NoMeta, file |-> file]

-----------------------------------------------------------------------------
(* MIME type of an image path.                                             *)

RECURSIVE LastIndexOf(_, _, _)
LastIndexOf(s, c, i) ==
    IF i = 0 THEN 0
    ELSE IF s[i] = c THEN i
    ELSE LastIndexOf(s, c, i - 1)

\* os.path.splitext(path)[1]: from the last dot of the last path component,
\* unless that component has only dots before it (a dotfile has no extension).
splitext(path) ==
    LET sepIndex == LastIndexOf(path, 47, Len(path))
        dotIndex == LastIndexOf(path, 46, Len(path))
    IN  IF dotIndex > sepIndex
           /\ \E k \in (sepIndex + 1)..(dotIndex - 1) : path[k] # 46
        THEN SubSeq(path, dotIndex, Len(path))
        ELSE <<>>

ExtJpg  == <<46, 106, 112, 103>>         \* '.jpg'
ExtJpeg == <<46, 106, 112, 101, 103>>    \* '.jpeg'
ExtPng  == <<46, 112, 110, 103>>         \* '.png'

\* The extension compared as written, without lower().
MimeOfCaseSensitive(image_path) ==
    LET ext == splitext(image_path)
    IN  IF ext \in {ExtJpg, ExtJpeg} THEN "image/jpeg"
        ELSE IF ext = ExtPng THEN "image/png"
        ELSE "image/jpeg"

\* The MIME type embed_cover_art derives from the extension.
MimeOf(image_path) ==
    LET ext == Lower(splitext(image_path))
    IN  IF ext \in {ExtJpg, ExtJpeg} THEN "image/jpeg"
        ELSE IF ext = ExtPng THEN "image/png"
        ELSE "image/jpeg"

-----------------------------------------------------------------------------
(* The four operations of audio_handler.py.                                *)

\* The first attached picture of a container, in container order.
FirstPicture(tags) ==
    LET pictures == SelectSeq(tags, LAMBDA frame : frame.id = "APIC")
    IN  IF pictures = <<>> THEN None ELSE Some(pictures[1].data)

\* extract_cover_art without the handler of Exception.
extract_cover_artNoCatch(files, mp3_path) ==
    LET file == files[mp3_path]
    IN  IF ~exists(files, mp3_path)
        THEN Raised("FileNotFoundError", "mp3_path", file, FALSE)
        ELSE LET audio == MP3(files, mp3_path)
             IN  IF audio.raised
                 THEN Raised(audio.exc, "", file, TRUE)
                 ELSE IF audio.tags # None /\ audio.tags[1] # <<>>
                 THEN Returned(FirstPicture(audio.tags[1]), NoMeta, file, TRUE)
                 ELSE Returned(None, NoMeta, file, TRUE)

extract_cover_art(files, mp3_path) ==
    LET file == files[mp3_path]
    IN  IF ~exists(files, mp3_path)
        THEN Raised("FileNotFoundError", "mp3_path", file, FALSE)
        ELSE LET audio == MP3(files, mp3_path)
             IN  IF audio.raised
                 THEN Returned(None, NoMeta, file, TRUE)
                 ELSE IF audio.tags # None /\ audio.tags[1] # <<>>
                 THEN Returned(FirstPicture(audio.tags[1]), NoMeta, file, TRUE)
                 ELSE Returned(None, NoMeta, file, TRUE)

\* audio.tags[id].text[0] when the container is non-empty and holds id.
FirstText(tags, id) ==
    LET found == IF tags = None THEN <<>>
                 ELSE SelectSeq(tags[1], LAMBDA frame : frame.id = id)
    IN  IF found = <<>> THEN None ELSE Some(found[1].text[1])

get_metadata(files, mp3_path) ==
    LET file == files[mp3_path]
    IN  IF ~exists(files, mp3_path)
        THEN Raised("FileNotFoundError", "mp3_path", file, FALSE)
        ELSE LET audio == MP3(files, mp3_path)
             IN  IF audio.raised
                 THEN Returned(None, NoMeta, file, TRUE)
                 ELSE Returned(None,
                               [title  |-> FirstText(audio.tags, "TIT2"),
                                artist |-> FirstText(audio.tags, "TPE1")],
                               file, TRUE)

embed_cover_art(files, mp3_path, image_path) ==
    LET file  == files[mp3_path]
        image == ImageFile(image_path)
    IN  IF ~exists(files, mp3_path)
        THEN Raised("FileNotFoundError", "mp3_path", file, FALSE)
        ELSE IF ~image.exists
        THEN Raised("FileNotFoundError", "image_path", file, FALSE)
        ELSE LET audio == MP3(files, mp3_path)
             IN  IF audio.raised
                 THEN Raised(audio.exc, "", file, TRUE)
                 ELSE IF ~image.readable
                 THEN Raised("PermissionError", "image_path", file, TRUE)
                 ELSE LET tags    == add_tags(audio.tags).tags
                          apic    == APIC(3, MimeOf(image_path), 3, CoverDesc, image.data)
                          removed == delall(tags[1], "APIC")
                          added   == add(removed, apic)
                          saved   == save(file, Some(added))
                      IN  IF saved.raised
                          THEN Raised(saved.exc, "", saved.file, TRUE)
                          ELSE Returned(None, NoMeta, saved.file, TRUE)

set_metadata(files, mp3_path, title, artist) ==
    LET file == files[mp3_path]
    IN  IF ~exists(files, mp3_path)
        THEN Raised("FileNotFoundError", "mp3_path", file, FALSE)
        ELSE LET audio == MP3(files, mp3_path)
             IN  IF audio.raised
                 THEN Raised(audio.exc, "", file, TRUE)
                 ELSE LET tags  == add_tags(audio.tags).tags
                          added == add(add(tags[1], TIT2(3, title)), TPE1(3, artist))
                          saved == save(file, Some(added))
                      IN  IF saved.raised
                          THEN Raised(saved.exc, "", saved.file, TRUE)
                          ELSE Returned(None, NoMeta, saved.file, TRUE)

-----------------------------------------------------------------------------
(* The state machine: a caller makes one call at a time (the operations    *)
(* are synchronous and keep nothing between calls).                        *)

\* The attached pictures a file stores, whatever their order.
PicturesOf(file) ==
    {[mime |-> file.frames[i].mime, type |-> file.frames[i].type,
      desc |-> file.frames[i].desc, data |-> file.frames[i].data] :
        i \in {j \in 1..Len(file.frames) : file.frames[j].id = "APIC"}}

\* The record of a call: the operation, its paths and its outcome (the
\* texts of a successful set_metadata are kept in wroteText), with what the
\* call met and left on disk: the tag header and the number of stored
\* pictures before it, whether any file
\* differs after it, whether the stored pictures and the metadata a read
\* returns are the same after it as before.
Call(op, mp3_path, image_path, r) ==
    LET after == [fs EXCEPT ![mp3_path] = r.file]
    IN  [op |-> op, path |-> mp3_path, image |-> image_path,
         raised |-> r.raised, exc |-> r.exc, names |-> r.names,
         opened |-> r.opened, cover |-> r.cover, meta |-> r.meta,
         headerBefore |-> fs[mp3_path].header,
         picturesBefore |-> Cardinality(PicturesOf(fs[mp3_path])),
         changed |-> after # fs,
         picturesSame |-> PicturesOf(r.file) = PicturesOf(fs[mp3_path]),
         metaSame |-> get_metadata(after, mp3_path).meta
                         = get_metadata(fs, mp3_path).meta]

NoCall ==
    [op |-> "none", path |-> "", image |-> <<>>,
     raised |-> FALSE, exc |-> "", names |-> "", opened |-> FALSE,
     cover |-> None, meta |-> NoMeta, headerBefore |-> "none", picturesBefore |-> 0,
     changed |-> FALSE, picturesSame |-> TRUE, metaSame |-> TRUE]

NoTextWritten ==
    [set |-> FALSE, path |-> "", title |-> <<>>, artist |-> <<>>, coverAfter |-> FALSE]

\* created: the cover write found no container and created it.
NoCoverWritten ==
    [set |-> FALSE, path |-> "", data |-> <<>>, created |-> FALSE, textAfter |-> 0]

\* MP3EditorApp.__init__: no MP3 loaded, no pending image, empty fields,
\* nothing shown in the image panel; the application is running.
GuiStart ==
    [current_mp3_path |-> None, current_image_path |-> None,
     title_input |-> <<>>, artist_input |-> <<>>,
     original_pixmap |-> None, running |-> TRUE]

\* The record of a handler run: the handler, whether a call of
\* audio_handler raised in it (and which), whether the exception left the
\* handler uncaught, and whether the window's MP3 path, pending image path,
\* title field and artist field are the same after it as before.
NoEvent ==
    [handler |-> "none", surfaced |-> FALSE, op |-> "", uncaught |-> FALSE,
     same |-> TRUE]

Init ==
    /\ \E prior \in PriorTags, writable \in BOOLEAN :
          fs = [p \in Mp3Paths |->
                   IF p = "song.mp3"
                   THEN Mp3File(prior.header, prior.frames, writable)
                   ELSE NoFile]
    /\ last = NoCall
    /\ wroteText = NoTextWritten
    /\ wroteCover = NoCoverWritten
    /\ gui = GuiStart
    /\ event = NoEvent

ExtractCoverArt(p) ==
    LET r == extract_cover_art(fs, p)
    IN  /\ fs' = [fs EXCEPT ![p] = r.file]
        /\ last' = Call("extract_cover_art", p, <<>>, r)
        /\ UNCHANGED <<wroteText, wroteCover, gui, event>>

GetMetadata(p) ==
    LET r == get_metadata(fs, p)
    IN  /\ fs' = [fs EXCEPT ![p] = r.file]
        /\ last' = Call("get_metadata", p, <<>>, r)
        /\ UNCHANGED <<wroteText, wroteCover, gui, event>>

EmbedCoverArt(p, img) ==
    LET r == embed_cover_art(fs, p, img)
    IN  /\ fs' = [fs EXCEPT ![p] = r.file]
        /\ last' = Call("embed_cover_art", p, img, r)
        /\ wroteCover' =
              IF r.raised THEN wroteCover
              ELSE [set |-> TRUE, path |-> p, data |-> ImageFile(img).data,
                    created |-> fs[p].header = "none",
                    textAfter |-> 0]
        /\ wroteText' =
              IF ~r.raised /\ wroteText.set /\ wroteText.path = p
              THEN [wroteText EXCEPT !.coverAfter = TRUE]
              ELSE wroteText
        /\ UNCHANGED <<gui, event>>

SetMetadata(p, t, a) ==
    LET r == set_metadata(fs, p, t, a)
    IN  /\ fs' = [fs EXCEPT ![p] = r.file]
        /\ last' = Call("set_metadata", p, <<>>, r)
        /\ wroteText' =
              IF r.raised THEN wroteText
              ELSE [set |-> TRUE, path |-> p, title |-> t, artist |-> a,
                    coverAfter |-> FALSE]
        /\ wroteCover' =
              IF ~r.raised /\ wroteCover.set /\ wroteCover.path = p
                 /\ wroteCover.textAfter < MaxTextWrites
              THEN [wroteCover EXCEPT !.textAfter = @ + 1]
              ELSE wroteCover
        /\ UNCHANGED <<gui, event>>

Next ==
    \/ \E p \in Mp3Paths : ExtractCoverArt(p)
    \/ \E p \in Mp3Paths : GetMetadata(p)
    \/ \E p \in Mp3Paths, img \in ImagePaths : EmbedCoverArt(p, img)
    \/ \E p \in Mp3Paths, t \in Strings, a \in Strings : SetMetadata(p, t, a)

Spec == Init /\ [][Next]_vars

-----------------------------------------------------------------------------
(* The editor window (src/main.py, MP3EditorApp): its handlers, each run   *)
(* to its end.                                                             *)

\* The MP3 paths, as code points.
PathChars(mp3_path) ==
    IF mp3_path = "song.mp3"
    THEN <<115, 111, 110, 103, 46, 109, 112, 51>>
    ELSE <<109, 105, 115, 115, 105, 110, 103, 46, 109, 112, 51>>

\* os.path.basename(path)
basename(path) == SubSeq(path, LastIndexOf(path, 47, Len(path)) + 1, Len(path))

\* os.path.splitext(os.path.basename(file_path))[0]
default_title(file_path) ==
    LET name == basename(PathChars(file_path))
    IN  SubSeq(name, 1, Len(name) - Len(splitext(name)))

\* The default artist of handle_mp3_drop, as code points.
default_artist ==
    <<1505, 1512, 1511, 1488, 1505, 1496, 1497, 1501, 58, 32,
      1488, 1493, 1512, 1503, 32, 1493, 1510, 1495, 1497>>

\* Truth value of an Optional[str] or Optional[bytes]: None and the empty
\* value are false.
Truthy(value) == value # None /\ value[1] # <<>>

\* Truth value of the current MP3 path (the paths of the model are not empty).
HasMp3(g) == g.current_mp3_path # None

\* QPixmap loads the data (image data that is empty does not load).
Loads(data) == data # <<>>

\* The state the claims about the window speak of.
GuiFields(g) ==
    [current_mp3_path |-> g.current_mp3_path,
     current_image_path |-> g.current_image_path,
     title_input |-> g.title_input, artist_input |-> g.artist_input]

\* The texts the user types into the title and artist fields.
Typed == {<<>>, <<84>>}

\* The image paths dropped on the image panel.
DroppedImages == {ImgPng, ImgGif, ImgNoExt, ImgMissing, ImgLocked}

\* The record of a handler run that ended.
Handled(handler, surfaced, op, uncaught, after) ==
    [handler |-> handler, surfaced |-> surfaced, op |-> op, uncaught |-> uncaught,
     same |-> GuiFields(after) = GuiFields(gui)]

\* checkForExistingCover: shows the cover of the current MP3 and forgets the
\* pending image, or clears an image panel that shows nothing; an exception
\* of extract_cover_art is caught and reported.
checkForExistingCover(files, g) ==
    IF ~HasMp3(g)
    THEN [gui |-> g, surfaced |-> FALSE]
    ELSE LET r == extract_cover_art(files, g.current_mp3_path[1])
         IN  IF r.raised
             THEN [gui |-> g, surfaced |-> TRUE]
             ELSE IF Truthy(r.cover)
             THEN [gui |-> [g EXCEPT
                              !.original_pixmap =
                                  IF Loads(r.cover[1]) THEN r.cover ELSE @,
                              !.current_image_path = None],
                   surfaced |-> FALSE]
             ELSE [gui |-> [g EXCEPT !.original_pixmap = None], surfaced |-> FALSE]

\* handle_mp3_drop(file_path): the path is stored first; get_metadata is
\* called outside any try, so its exception leaves the handler (after which
\* the application either goes on or is ended by the toolkit); otherwise
\* the fields are filled and the cover is looked up.
HandleMp3Drop(file_path) ==
    LET stored == [gui EXCEPT !.current_mp3_path = Some(file_path)]
        r      == get_metadata(fs, file_path)
        filled == [stored EXCEPT
                     !.title_input  = IF Truthy(r.meta.title) THEN r.meta.title[1]
                                      ELSE default_title(file_path),
                     !.artist_input = IF Truthy(r.meta.artist) THEN r.meta.artist[1]
                                      ELSE default_artist]
        cover  == checkForExistingCover(fs, filled)
    IN  /\ gui.running
        /\ fs' = [fs EXCEPT ![file_path] = r.file]
        /\ IF r.raised
           THEN /\ \E running \in BOOLEAN : gui' = [stored EXCEPT !.running = running]
                /\ event' = Handled("handle_mp3_drop", TRUE, "get_metadata", TRUE, stored)
           ELSE /\ gui' = cover.gui
                /\ event' = Handled("handle_mp3_drop", cover.surfaced,
                                    IF cover.surfaced THEN "extract_cover_art" ELSE "",
                                    FALSE, cover.gui)
        /\ UNCHANGED <<last, wroteText, wroteCover>>

\* handle_image_drop(file_path): the path becomes the pending image, and
\* the image is shown when it loads.
HandleImageDrop(file_path) ==
    LET image == ImageFile(file_path)
        shown == [gui EXCEPT
                    !.current_image_path = Some(file_path),
                    !.original_pixmap =
                        IF image.exists /\ image.readable /\ Loads(image.data)
                        THEN Some(image.data) ELSE @]
    IN  /\ gui.running
        /\ gui' = shown
        /\ event' = Handled("handle_image_drop", FALSE, "", FALSE, shown)
        /\ UNCHANGED <<fs, last, wroteText, wroteCover>>

\* The user edits the title field.
EditTitle(text) ==
    /\ gui.running
    /\ gui' = [gui EXCEPT !.title_input = text]
    /\ event' = Handled("title_input", FALSE, "", FALSE, gui')
    /\ UNCHANGED <<fs, last, wroteText, wroteCover>>

\* The user edits the artist field.
EditArtist(text) ==
    /\ gui.running
    /\ gui' = [gui EXCEPT !.artist_input = text]
    /\ event' = Handled("artist_input", FALSE, "", FALSE, gui')
    /\ UNCHANGED <<fs, last, wroteText, wroteCover>>

\* save_cover_art: nothing without an MP3; set_metadata with the fields, then
\* embed_cover_art when an image is pending; an exception of either is
\* caught and reported; after a success the cover is looked up again and
\* the pending image is forgotten.
SaveCoverArt ==
    IF ~HasMp3(gui)
    THEN /\ gui.running
         /\ event' = Handled("save_cover_art", FALSE, "", FALSE, gui)
         /\ UNCHANGED <<fs, gui, last, wroteText, wroteCover>>
    ELSE LET path     == gui.current_mp3_path[1]
             text     == set_metadata(fs, path, gui.title_input, gui.artist_input)
             withText == [fs EXCEPT ![path] = text.file]
             pending  == Truthy(gui.current_image_path)
             image    == embed_cover_art(withText, path, gui.current_image_path[1])
             saved    == IF pending THEN [withText EXCEPT ![path] = image.file]
                         ELSE withText
             cover    == checkForExistingCover(saved, gui)
             reset    == [cover.gui EXCEPT !.current_image_path = None]
         IN  /\ gui.running
             /\ IF text.raised
                THEN /\ fs' = withText
                     /\ gui' = gui
                     /\ event' = Handled("save_cover_art", TRUE, "set_metadata", FALSE, gui)
                ELSE IF pending /\ image.raised
                THEN /\ fs' = saved
                     /\ gui' = gui
                     /\ event' = Handled("save_cover_art", TRUE, "embed_cover_art",
                                         FALSE, gui)
                ELSE /\ fs' = saved
                     /\ gui' = reset
                     /\ event' = Handled("save_cover_art", cover.surfaced,
                                         IF cover.surfaced THEN "extract_cover_art" ELSE "",
                                         FALSE, reset)
             /\ UNCHANGED <<last, wroteText, wroteCover>>

GuiNext ==
    \/ \E file_path \in Mp3Paths : HandleMp3Drop(file_path)
    \/ \E file_path \in DroppedImages : HandleImageDrop(file_path)
    \/ \E text \in Typed : EditTitle(text)
    \/ \E text \in Typed : EditArtist(text)
    \/ SaveCoverArt

GuiSpec == Init /\ [][GuiNext]_vars

-----------------------------------------------------------------------------
(* The claims.                                                             *)

\* The stored frames of identifier id of the file at path.
Stored(path, id) == SelectSeq(fs[path].frames, LAMBDA d : d.id = id)

IsRead  == last.op \in {"get_metadata", "extract_cover_art"}
IsWrite == last.op \in {"set_metadata", "embed_cover_art"}

\* The last call is a read of the file that the last successful
\* set_metadata wrote, with no cover write in between (coverAfter = FALSE)
\* or with one (coverAfter = TRUE).
ReadsWrittenText(coverAfter) ==
    /\ last.op = "get_metadata"
    /\ wroteText.set
    /\ wroteText.path = last.path
    /\ wroteText.coverAfter = coverAfter

\* C1: round-trip metadata.  A get_metadata that follows a successful
\* set_metadata(p, t, a) on the same file returns exactly {title: t,
\* artist: a}, for every t and a, the empty string included.
C1_RoundTrip ==
    ReadsWrittenText(FALSE) =>
        /\ ~last.raised
        /\ last.meta = [title  |-> Some(wroteText.title),
                        artist |-> Some(wroteText.artist)]

\* C2: cover single-ness.  After a successful embed_cover_art(p, img) the
\* file stores exactly one attached picture, whose data is the content of
\* img, whatever number of pictures it stored before; and an
\* extract_cover_art that follows returns that content.
C2_CoverSingle ==
    /\ (last.op = "embed_cover_art" /\ ~last.raised) =>
          /\ Len(Stored(last.path, "APIC")) = 1
          /\ Stored(last.path, "APIC")[1].data = ImageFile(last.image).data
    /\ (last.op = "extract_cover_art" /\ wroteCover.set
            /\ wroteCover.path = last.path /\ wroteCover.textAfter = 0) =>
          /\ ~last.raised
          /\ last.cover = Some(wroteCover.data)

\* C2 witness: a cover write succeeded on a file that stored two pictures.
C2_Witness ==
    /\ last.op = "embed_cover_art"
    /\ ~last.raised
    /\ last.picturesBefore = 2
    /\ Len(Stored(last.path, "APIC")) = 1

\* C3: idempotent replace.  After a successful set_metadata(p, t, a) the
\* file stores exactly one TIT2 frame and exactly one TPE1 frame, holding t
\* and a.
C3_OneTitleOneArtist ==
    (last.op = "set_metadata" /\ ~last.raised) =>
        /\ Len(Stored(last.path, "TIT2")) = 1
        /\ Len(Stored(last.path, "TPE1")) = 1
        /\ ReadTextValues(Stored(last.path, "TIT2")[1].body) = <<wroteText.title>>
        /\ ReadTextValues(Stored(last.path, "TPE1")[1].body) = <<wroteText.artist>>

\* C4: mixed update.  set_metadata leaves the stored pictures as they were;
\* after a successful embed_cover_art(p, img) followed by one or more
\* set_metadata calls and no other cover write, extract_cover_art returns
\* the content of img, also when the cover write created the container.
C4_TextKeepsCover ==
    /\ last.op = "set_metadata" => last.picturesSame
    /\ (last.op = "extract_cover_art" /\ wroteCover.set
            /\ wroteCover.path = last.path /\ wroteCover.textAfter >= 1) =>
          /\ ~last.raised
          /\ last.cover = Some(wroteCover.data)

\* C4 witness: the cover is read back after a cover write that created the
\* container and two text writes that followed it.
C4_Witness ==
    /\ last.op = "extract_cover_art"
    /\ wroteCover.set
    /\ wroteCover.created
    /\ wroteCover.textAfter >= 2
    /\ wroteText.set
    /\ last.cover = Some(wroteCover.data)

\* C5: missing-file signalling.  Every operation on an MP3 path that names
\* no file raises FileNotFoundError; embed_cover_art on an existing MP3 with
\* an image path that names no file raises FileNotFoundError naming the
\* image path; in both cases before the MP3 is opened, and no file is
\* created or changed.
C5_MissingFile ==
    /\ \A p \in Mp3Paths : p # "song.mp3" => fs[p] = NoFile
    /\ (last.op # "none" /\ ~fs[last.path].exists) =>
          /\ last.raised
          /\ last.exc = "FileNotFoundError"
          /\ last.names = "mp3_path"
          /\ ~last.opened
          /\ ~last.changed
    /\ (last.op = "embed_cover_art" /\ fs[last.path].exists
            /\ ~ImageFile(last.image).exists) =>
          /\ last.raised
          /\ last.exc = "FileNotFoundError"
          /\ last.names = "image_path"
          /\ ~last.opened
          /\ ~last.changed

\* C5 witness: a read of a path that names no file raised FileNotFoundError.
C5_Witness ==
    /\ last.op = "get_metadata"
    /\ ~fs[last.path].exists
    /\ last.raised
    /\ last.exc = "FileNotFoundError"

\* C6: reads tolerate a missing or unreadable container.  On an existing
\* file with no ID3 header, or with one that cannot be parsed, get_metadata
\* returns {title: None, artist: None} and extract_cover_art returns None;
\* neither raises, neither changes the file.
C6_ReadsTolerate ==
    (IsRead /\ fs[last.path].exists /\ last.headerBefore \in {"none", "malformed"}) =>
        /\ ~last.raised
        /\ last.meta = NoMeta
        /\ last.cover = None
        /\ ~last.changed

\* C6 witness: the cover was read from a file whose tag cannot be parsed.
C6_Witness ==
    /\ last.op = "extract_cover_art"
    /\ fs[last.path].exists
    /\ last.headerBefore = "malformed"
    /\ ~last.raised
    /\ last.cover = None

\* A write that failed after the existence checks: the codec opened the file.
WriteFailed == IsWrite /\ last.raised /\ last.opened

C8_CorruptTagSurfaces ==
    (IsWrite /\ last.headerBefore = "malformed") =>
        /\ last.raised
        /\ ~last.changed
        /\ fs[last.path].header = "malformed"

\* C8 witness: a text write was refused on a writable file whose tag cannot
\* be parsed.
C8_Witness ==
    /\ last.op = "set_metadata"
    /\ last.headerBefore = "malformed"
    /\ fs[last.path].writable
    /\ last.raised
    /\ last.exc = "MutagenError"

\* The MIME type each image path of the model is to be stored with.
ExpectedMime(image_path) ==
    IF image_path \in {ImgPng, ImgPngUp} THEN "image/png" ELSE "image/jpeg"

C10_CoverKeepsText ==
    /\ (last.op = "embed_cover_art" /\ ~last.raised) => last.metaSame
    /\ ReadsWrittenText(TRUE) =>
          /\ ~last.raised
          /\ last.meta = [title  |-> Some(wroteText.title),
                          artist |-> Some(wroteText.artist)]

\* C11: GUI state on failure.  Whenever a call of audio_handler raises in a
\* handler of the window (get_metadata or extract_cover_art in an MP3 load,
\* set_metadata or embed_cover_art in a save), the window's current MP3
\* path, pending image path, title field and artist field are after the
\* handler what they were before it.
C11_FailureKeepsGuiState ==
    event.surfaced => event.same

====
